---- MODULE Spec2Model ----
(***************************************************************************)
(* Model of split-original-md.py: the chapter splitter that turns rust.md  *)
(* into rust-book/{metadata.yaml, build.sh, chapters/NN-<slug>}.           *)
(* Text is a sequence of one-character strings, so that the regular        *)
(* expressions, str.strip, str.lower, str.replace and the f-string         *)
(* formatting of the script are computed character by character.           *)
(***************************************************************************)
EXTENDS Integers, Sequences, FiniteSets, TLC

\* ------------------------------------------------------------------ bounds
MaxLines == 3       \* lines of a document given to split_content alone
MaxMainLines == 3   \* lines of the rust.md documents of a whole run
MaxRuns == 2        \* consecutive runs of main on the same rust.md

\* ------------------------------------------------------- character classes
NL == "\n"
LowerLetters ==
  << "a","b","c","d","e","f","g","h","i","j","k","l","m",
     "n","o","p","q","r","s","t","u","v","w","x","y","z" >>
UpperLetters ==
  << "A","B","C","D","E","F","G","H","I","J","K","L","M",
     "N","O","P","Q","R","S","T","U","V","W","X","Y","Z" >>
DigitChars == << "0","1","2","3","4","5","6","7","8","9" >>

Range(s) == { s[j] : j \in DOMAIN s }

\* str.strip() with no argument removes these (ASCII part of str.isspace)
Whitespace == { " ", NL, "\t", "\r" }

\* the class [a-z0-9\-] of the filename regular expression
SlugChars == Range(LowerLetters) \cup Range(DigitChars) \cup { "-" }

\* ------------------------------------------------------------ str helpers
IndexIn(c, s) == CHOOSE j \in DOMAIN s : s[j] = c

\* str.lower() on one character
LowerChar(c) ==
  IF c \in Range(UpperLetters) THEN LowerLetters[IndexIn(c, UpperLetters)] ELSE c

\* str.lower()
Lower(s) == [ j \in DOMAIN s |-> LowerChar(s[j]) ]

\* str.replace(' ', '-')
ReplaceSpaces(s) == [ j \in DOMAIN s |-> IF s[j] = " " THEN "-" ELSE s[j] ]

\* re.sub(r'[^a-z0-9\-]', '', s)
InSlugClass(c) == c \in SlugChars
StripNonSlug(s) == SelectSeq(s, InSlugClass)

RECURSIVE LStrip(_)
LStrip(s) ==
  IF s # << >> /\ Head(s) \in Whitespace THEN LStrip(Tail(s)) ELSE s

RECURSIVE RStrip(_)
RStrip(s) ==
  IF s # << >> /\ s[Len(s)] \in Whitespace
    THEN RStrip(SubSeq(s, 1, Len(s) - 1))
    ELSE s

\* str.strip()
Strip(s) == RStrip(LStrip(s))

\* s.split('\n')[0]: the text before the first newline
RECURSIVE FirstLine(_)
FirstLine(s) ==
  IF s = << >> \/ Head(s) = NL THEN << >> ELSE << Head(s) >> \o FirstLine(Tail(s))

\* f"{i:02d}"
RECURSIVE Decimal(_)
Decimal(n) ==
  IF n < 10 THEN << DigitChars[n + 1] >>
            ELSE Decimal(n \div 10) \o << DigitChars[(n % 10) + 1] >>
Format02d(n) == IF n < 10 THEN << "0" >> \o Decimal(n) ELSE Decimal(n)

\* ----------------------------------------------------------- re.split
HeadingMarker == << "#", "#", " " >>

\* slip: the marker matched anywhere, the line-start anchor '^' left out
MatchesAt_Unanchored(content, p) ==
  /\ p + 2 <= Len(content)
  /\ SubSeq(content, p, p + 2) = << "#", "#", " " >>

\* r'^## ' with re.MULTILINE matches at p: p is the start of the text or
\* follows a newline, and the three characters at p are '#', '#', ' '
MatchesAt(content, p) ==
  /\ p + 2 <= Len(content)
  /\ (p = 1 \/ content[p - 1] = NL)
  /\ SubSeq(content, p, p + 2) = HeadingMarker

\* re.split(r'^## ', content, flags=re.MULTILINE): scan left to right, cut
\* at every match, drop the matched marker
RECURSIVE SplitFrom(_, _, _)
SplitFrom(content, segStart, p) ==
  IF p > Len(content)
    THEN << SubSeq(content, segStart, Len(content)) >>
    ELSE IF MatchesAt(content, p)
      THEN << SubSeq(content, segStart, p - 1) >> \o SplitFrom(content, p + 3, p + 3)
      ELSE SplitFrom(content, segStart, p + 1)
ReSplit(content) == SplitFrom(content, 1, 1)

\* ------------------------------------------------- what split_content writes
PageBreak == << NL, NL, "\\", "p", "a", "g", "e", "b", "r", "e", "a", "k", NL >>

IntroName ==
  << "0","1","-","i","n","t","r","o","d","u","c","t","i","o","n",".","m","d" >>
MdExt == << ".", "m", "d" >>

\* slip: the heading marker put in front of the introduction as well
IntroContent_WithMarker(intro) == << "#", "#", " " >> \o Strip(intro) \o PageBreak

\* line 59: intro.strip() + "\n\n\\pagebreak\n"
IntroContent(intro) == Strip(intro) \o PageBreak

\* line 64: section.split('\n')[0].strip()
Title(section) == Strip(FirstLine(section))

\* slip: .lower() left out
Hyphenated_NoLower(title) == ReplaceSpaces(title)

\* title.lower().replace(' ', '-'), the slug before any stripping
Hyphenated(title) == ReplaceSpaces(Lower(title))

\* lines 66-67: the f-string builds NN-<title>.md and re.sub then runs over
\* the WHOLE filename, extension included
Filename(ord, title) ==
  StripNonSlug(Format02d(ord) \o << "-" >> \o Hyphenated(title) \o MdExt)

\* slip: the heading marker removed by the split is not put back
SectionContent_NoMarker(section) == Strip(section) \o PageBreak

\* line 71: f"## {section.strip()}\n\n\\pagebreak\n"
SectionContent(section) == HeadingMarker \o Strip(section) \o PageBreak

\* -------------------------------------------------------------- documents
Join(lines) ==
  IF lines = << >> THEN << >>
  ELSE LET F[j \in 1..Len(lines)] ==
             IF j = 1 THEN lines[1] ELSE F[j - 1] \o << NL >> \o lines[j]
       IN  F[Len(lines)]

LineForms ==
  << << "#","#"," ","C","+","+"," ","&"," ","R","u","s","t","!" >>,
     << "#","#"," ","A" >>,
     << "#","#"," ","a","!" >>,
     << "#","#"," " >>,
     << "#","#"," ","!","?" >>,
     << "#","#"," "," ","T","9"," " >>,
     << "#"," ","h" >>,
     << "#","#","#"," ","h" >>,
     << "a"," ","#","#"," ","b" >>,
     << >>,
     << " ","b","\t" >> >>

MainLineForms ==
  << << "#","#"," ","A" >>,
     << "#","#"," ","a","!" >>,
     << "x"," ","y" >>,
     << >> >>

SeqsUpTo(S, n) == UNION { [1..m -> S] : m \in 0..n }

DocsOf(forms, n) ==
  { Join([ j \in DOMAIN ls |-> forms[ls[j]] ]) : ls \in SeqsUpTo(DOMAIN forms, n) }

SplitDocs == DocsOf(LineForms, MaxLines)
MainDocs == DocsOf(MainLineForms, MaxMainLines)

\* ------------------------------------------------------------ static assets
\* lines 19-33, as the interpreter stores the literal ("\\u" is one backslash)
Metadata ==
  "---\ntitle: Rust for C and C++ programmers\nauthor: Your Name\ndate: 2024\ntoc: true\ntoc-depth: 2\nnumbersections: true\ngeometry: margin=1in\nlinkcolor: blue\nheader-includes: |\n    \\usepackage{fancyhdr}\n    \\pagestyle{fancy}\n    \\fancyhead[CO,CE]{Rust for C and C++ programmers}\n---\n"

\* lines 38-46: a backslash at the end of a line of the literal joins the lines
BuildScript ==
  "#!/bin/bash\npandoc metadata.yaml     chapters/*.md     --from markdown+smart     --pdf-engine=xelatex     --toc     --number-sections     -o rust-book.pdf\n"

\* ---------------------------------------------------------------- state
VARIABLES
  srcState,     \* rust.md: "ok", "missing" or "unreadable"
  srcText,      \* the text of rust.md
  pc,           \* position of the run in main
  content,      \* main's local: the text read
  sections,     \* split_content's local: result of re.split
  i,            \* split_content's loop ordinal (enumerate start=2)
  base,         \* rust-book: "absent", "dir" or "file" (a regular file)
  rootFiles,    \* rust-book/<name> -> [content, mode]
  chaptersDir,  \* rust-book/chapters exists
  chapters,     \* rust-book/chapters/<filename> -> content
  stdout,       \* lines printed by the current run
  runs,         \* runs of main started so far
  tree0,        \* history: the Output Tree when the current run started
  log           \* history: file-system operations of the current run

vars == << srcState, srcText, pc, content, sections, i, base, rootFiles,
           chaptersDir, chapters, stdout, runs, tree0, log >>

NoFiles == [ x \in {} |-> x ]

MkTree(b, rf, cd, ch) ==
  [ base |-> b, rootFiles |-> rf, chaptersDir |-> cd, chapters |-> ch ]
Tree == MkTree(base, rootFiles, chaptersDir, chapters)
AbsentTree == MkTree("absent", NoFiles, FALSE, NoFiles)

\* open(path, 'w'); f.write(text): create or truncate, then write
WriteFile(dir, name, text) ==
  [ x \in (DOMAIN dir) \cup { name } |-> IF x = name THEN text ELSE dir[x] ]

\* the chapter files split_content leaves in an empty chapters directory:
\* the writes of lines 58 and 70 in order, a later write replacing an earlier
\* one of the same name
ChapterFilesOf(doc) ==
  LET s == ReSplit(doc)
      F[j \in 1..Len(s)] ==
        IF j = 1
          THEN WriteFile(NoFiles, IntroName, IntroContent(s[1]))
          ELSE WriteFile(F[j - 1], Filename(j, Title(s[j])), SectionContent(s[j]))
  IN  F[Len(s)]

RootFilesOfRun ==
  [ n \in { "metadata.yaml", "build.sh" } |->
      IF n = "metadata.yaml" THEN [ content |-> Metadata, mode |-> "default" ]
                             ELSE [ content |-> BuildScript, mode |-> "0755" ] ]

\* the Output Tree a successful run on doc leaves
TreeOfRun(doc) == MkTree("dir", RootFilesOfRun, TRUE, ChapterFilesOf(doc))

\* an earlier run on another document, followed by ./build.sh
EarlierDoc ==
  << "o","l","d",NL,"#","#"," ","A",NL,"o","l","d",NL,"#","#"," ","Z","z" >>
EarlierTree ==
  MkTree("dir",
         WriteFile(RootFilesOfRun, "rust-book.pdf",
                   [ content |-> "%PDF", mode |-> "default" ]),
         TRUE, ChapterFilesOf(EarlierDoc))

PriorTrees ==
  { AbsentTree,
    MkTree("dir", NoFiles, FALSE, NoFiles),
    MkTree("file", NoFiles, FALSE, NoFiles),
    EarlierTree }

SrcStates == { "ok", "missing", "unreadable" }

Event(op, where, name) == [ op |-> op, where |-> where, name |-> name ]

\* ------------------------------------------------------------------ main
\* slip: rust.md opened after create_directory_structure has run
ReadSource_AfterPreparation ==
  /\ pc = "read"
  /\ IF srcState = "ok"
       THEN /\ content' = srcText
            /\ pc' = "exists"
            /\ UNCHANGED << base, rootFiles, chaptersDir, chapters >>
       ELSE /\ content' = content
            /\ pc' = "failed"
            /\ base' = "dir"
            /\ rootFiles' = NoFiles
            /\ chaptersDir' = TRUE
            /\ chapters' = NoFiles
  /\ UNCHANGED << srcState, srcText, sections, i, stdout, runs, tree0, log >>

\* lines 75-76: open('rust.md') and f.read(); either raises before anything
\* else of main has run
ReadSource ==
  /\ pc = "read"
  /\ IF srcState = "ok"
       THEN content' = srcText /\ pc' = "exists"
       ELSE content' = content /\ pc' = "failed"
  /\ UNCHANGED << srcState, srcText, sections, i, base, rootFiles, chaptersDir,
                  chapters, stdout, runs, tree0, log >>

\* line 11, os.path.exists(base_dir) false
SkipRmTree ==
  /\ pc = "exists"
  /\ base = "absent"
  /\ pc' = "makedirs"
  /\ UNCHANGED << srcState, srcText, content, sections, i, base, rootFiles,
                  chaptersDir, chapters, stdout, runs, tree0, log >>

\* slip: only the chapters subdirectory removed
RmTree_ChaptersOnly ==
  /\ pc = "exists"
  /\ base # "absent"
  /\ IF base = "dir"
       THEN /\ chaptersDir' = FALSE
            /\ chapters' = NoFiles
            /\ log' = Append(log, Event("rmtree", "base", ""))
            /\ pc' = "makedirs"
            /\ UNCHANGED << base, rootFiles >>
       ELSE /\ UNCHANGED << base, rootFiles, chaptersDir, chapters, log >>
            /\ pc' = "failed"
  /\ UNCHANGED << srcState, srcText, content, sections, i, stdout, runs, tree0 >>

\* lines 11-12, os.path.exists(base_dir) true: shutil.rmtree removes a
\* directory with all it holds and raises on a regular file
RmTree ==
  /\ pc = "exists"
  /\ base # "absent"
  /\ IF base = "dir"
       THEN /\ base' = "absent"
            /\ rootFiles' = NoFiles
            /\ chaptersDir' = FALSE
            /\ chapters' = NoFiles
            /\ log' = Append(log, Event("rmtree", "base", ""))
            /\ pc' = "makedirs"
       ELSE /\ UNCHANGED << base, rootFiles, chaptersDir, chapters, log >>
            /\ pc' = "failed"
  /\ UNCHANGED << srcState, srcText, content, sections, i, stdout, runs, tree0 >>

\* line 14: os.makedirs(chapters_dir) creates rust-book and rust-book/chapters
MakeDirs ==
  /\ pc = "makedirs"
  /\ base' = "dir"
  /\ chaptersDir' = TRUE
  /\ log' = Append(log, Event("makedirs", "base", ""))
  /\ pc' = "metadata"
  /\ UNCHANGED << srcState, srcText, content, sections, i, rootFiles, chapters,
                  stdout, runs, tree0 >>

\* lines 18-35
CreateMetadataYaml ==
  /\ pc = "metadata"
  /\ rootFiles' = WriteFile(rootFiles, "metadata.yaml",
                            [ content |-> Metadata, mode |-> "default" ])
  /\ log' = Append(log, Event("write", "root", "metadata.yaml"))
  /\ pc' = "build"
  /\ UNCHANGED << srcState, srcText, content, sections, i, base, chaptersDir,
                  chapters, stdout, runs, tree0 >>

\* lines 37-50: write build.sh, then os.chmod(..., 0o755)
CreateBuildScript ==
  /\ pc = "build"
  /\ rootFiles' = WriteFile(rootFiles, "build.sh",
                            [ content |-> BuildScript, mode |-> "0755" ])
  /\ log' = Append(log, Event("write", "root", "build.sh"))
  /\ pc' = "split"
  /\ UNCHANGED << srcState, srcText, content, sections, i, base, chaptersDir,
                  chapters, stdout, runs, tree0 >>

\* line 54
SplitSections ==
  /\ pc = "split"
  /\ sections' = ReSplit(content)
  /\ log' = Append(log, Event("split", "chapters", ""))
  /\ pc' = "intro"
  /\ UNCHANGED << srcState, srcText, content, i, base, rootFiles, chaptersDir,
                  chapters, stdout, runs, tree0 >>

\* slip: split_content prepares the output directory once more
WriteIntro_Recreates ==
  /\ pc = "intro"
  /\ rootFiles' = NoFiles
  /\ chapters' = WriteFile(NoFiles, IntroName, IntroContent(sections[1]))
  /\ log' = log \o << Event("rmtree", "base", ""), Event("makedirs", "base", ""),
                      Event("write", "chapters", IntroName) >>
  /\ i' = 2
  /\ pc' = "loop"
  /\ UNCHANGED << srcState, srcText, content, sections, base, chaptersDir,
                  stdout, runs, tree0 >>

\* lines 57-59
WriteIntro ==
  /\ pc = "intro"
  /\ chapters' = WriteFile(chapters, IntroName, IntroContent(sections[1]))
  /\ log' = Append(log, Event("write", "chapters", IntroName))
  /\ i' = 2
  /\ pc' = "loop"
  /\ UNCHANGED << srcState, srcText, content, sections, base, rootFiles,
                  chaptersDir, stdout, runs, tree0 >>

\* lines 62-71, one iteration of the loop over sections[1:]
WriteSection ==
  /\ pc = "loop"
  /\ i <= Len(sections)
  /\ LET section == sections[i]
         title == Title(section)
         filename == Filename(i, title)
     IN  /\ chapters' = WriteFile(chapters, filename, SectionContent(section))
         /\ log' = Append(log, Event("write", "chapters", filename))
  /\ i' = i + 1
  /\ UNCHANGED << srcState, srcText, pc, content, sections, base, rootFiles,
                  chaptersDir, stdout, runs, tree0 >>

\* split_content has returned
LoopDone == pc = "loop" /\ i > Len(sections)

\* slip: the report printed from inside the loop, which ends the splitting
Print1_InsideLoop ==
  /\ pc = "loop"
  /\ stdout' = Append(stdout, "Book structure created in rust-book/")
  /\ pc' = "print2"
  /\ UNCHANGED << srcState, srcText, content, sections, i, base, rootFiles,
                  chaptersDir, chapters, runs, tree0, log >>

\* line 90
Print1 ==
  /\ LoopDone
  /\ stdout' = Append(stdout, "Book structure created in rust-book/")
  /\ pc' = "print2"
  /\ UNCHANGED << srcState, srcText, content, sections, i, base, rootFiles,
                  chaptersDir, chapters, runs, tree0, log >>

\* line 91
Print2 ==
  /\ pc = "print2"
  /\ stdout' = Append(stdout, "To build the PDF:")
  /\ pc' = "print3"
  /\ UNCHANGED << srcState, srcText, content, sections, i, base, rootFiles,
                  chaptersDir, chapters, runs, tree0, log >>

\* line 92
Print3 ==
  /\ pc = "print3"
  /\ stdout' = Append(stdout, "cd rust-book && ./build.sh")
  /\ pc' = "done"
  /\ UNCHANGED << srcState, srcText, content, sections, i, base, rootFiles,
                  chaptersDir, chapters, runs, tree0, log >>

\* lines 94-95: the script is started again; rust.md may have been removed or
\* restored meanwhile, its text is the same
StartRun ==
  /\ pc \in { "done", "failed" }
  /\ runs < MaxRuns
  /\ runs' = runs + 1
  /\ srcState' \in SrcStates
  /\ pc' = "read"
  /\ content' = << >>
  /\ sections' = << >>
  /\ i' = 0
  /\ stdout' = << >>
  /\ log' = << >>
  /\ tree0' = Tree
  /\ UNCHANGED << srcText, base, rootFiles, chaptersDir, chapters >>

Init ==
  /\ srcState \in SrcStates
  /\ srcText \in MainDocs
  /\ pc = "read"
  /\ content = << >>
  /\ sections = << >>
  /\ i = 0
  /\ \E t \in PriorTrees :
       /\ base = t.base
       /\ rootFiles = t.rootFiles
       /\ chaptersDir = t.chaptersDir
       /\ chapters = t.chapters
       /\ tree0 = t
  /\ stdout = << >>
  /\ runs = 1
  /\ log = << >>

Next ==
  \/ ReadSource
  \/ SkipRmTree
  \/ RmTree
  \/ MakeDirs
  \/ CreateMetadataYaml
  \/ CreateBuildScript
  \/ SplitSections
  \/ WriteIntro
  \/ WriteSection
  \/ Print1
  \/ Print2
  \/ Print3
  \/ StartRun

Spec == Init /\ [][Next]_vars

\* ------------------------------------------------- split_content on its own
\* split_content(content, chapters_dir) called as main calls it: the chapters
\* directory exists and is empty, content is any document
InitSplit ==
  /\ srcState = "ok"
  /\ srcText \in SplitDocs
  /\ content = srcText
  /\ pc = "split"
  /\ sections = << >>
  /\ i = 0
  /\ base = "dir"
  /\ rootFiles = RootFilesOfRun
  /\ chaptersDir = TRUE
  /\ chapters = NoFiles
  /\ stdout = << >>
  /\ runs = 1
  /\ tree0 = AbsentTree
  /\ log = << >>

NextSplit ==
  \/ SplitSections
  \/ WriteIntro
  \/ WriteSection

SpecSplit == InitSplit /\ [][NextSplit]_vars

\* ------------------------------------------------- vocabulary of the claims
\* the lines of a text, cut at every newline
RECURSIVE LinesOf(_)
LinesOf(text) ==
  LET first == FirstLine(text)
  IN  IF Len(first) = Len(text) THEN << first >>
      ELSE << first >> \o LinesOf(SubSeq(text, Len(first) + 2, Len(text)))

StartsWith(text, prefix) ==
  Len(text) >= Len(prefix) /\ SubSeq(text, 1, Len(prefix)) = prefix

EndsWith(text, suffix) ==
  /\ Len(text) >= Len(suffix)
  /\ SubSeq(text, Len(text) - Len(suffix) + 1, Len(text)) = suffix

\* the boundaries of a document: its lines that start with '#', '#', ' '
BoundaryLines(doc) ==
  { j \in DOMAIN LinesOf(doc) : StartsWith(LinesOf(doc)[j], HeadingMarker) }
NumBoundaries(doc) == Cardinality(BoundaryLines(doc))

\* the number a filename starts with: the digits before its first hyphen
RECURSIVE UpToHyphen(_)
UpToHyphen(name) ==
  IF name = << >> \/ Head(name) = "-" THEN << >>
  ELSE << Head(name) >> \o UpToHyphen(Tail(name))
RECURSIVE DecimalValue(_)
DecimalValue(digits) ==
  IF digits = << >> THEN 0
  ELSE 10 * DecimalValue(SubSeq(digits, 1, Len(digits) - 1))
       + (IndexIn(digits[Len(digits)], DigitChars) - 1)
OrdinalOf(name) == DecimalValue(UpToHyphen(name))

\* the names split_content has opened for writing so far, in order
ChapterWrites ==
  LET isCh(e) == e.op = "write" /\ e.where = "chapters"
      evs == SelectSeq(log, isCh)
  IN  [ j \in DOMAIN evs |-> evs[j].name ]

\* slug normalization as the specification words it, one character at a
\* time: lower-case, space to hyphen, keep lowercase letters, digits, hyphens
RECURSIVE Slug(_)
Slug(title) ==
  IF title = << >> THEN << >>
  ELSE LET c == IF Head(title) \in Range(UpperLetters)
                  THEN LowerLetters[IndexIn(Head(title), UpperLetters)]
                  ELSE Head(title)
           d == IF c = " " THEN "-" ELSE c
       IN  (IF d \in Range(LowerLetters) \cup Range(DigitChars) \cup { "-" }
              THEN << d >> ELSE << >>) \o Slug(Tail(title))

\* (C1) A document with k boundary lines is split into exactly k+1 chapter
\* files whose ordinals are exactly 1..k+1, and no two writes of
\* split_content go to the same filename, also when titles share a slug.
C1_ChapterCount ==
  /\ \A a, b \in DOMAIN ChapterWrites :
        a # b => ChapterWrites[a] # ChapterWrites[b]
  /\ LoopDone =>
       LET k == NumBoundaries(content)
       IN  /\ Cardinality(DOMAIN chapters) = k + 1
           /\ Len(ChapterWrites) = k + 1
           /\ { OrdinalOf(fn) : fn \in DOMAIN chapters } = 1..(k + 1)

\* two sections with the same slug, next to lines that are no boundaries
C1_Witness ==
  /\ LoopDone
  /\ NumBoundaries(content) = 2
  /\ Len(LinesOf(content)) = 3
  /\ Slug(Title(sections[2])) = Slug(Title(sections[3]))
  /\ Slug(Title(sections[2])) # << >>
  /\ Title(sections[2]) # Title(sections[3])

\* (C3) A document without boundary line is written as the single file
\* 01-introduction.md, holding the document stripped of surrounding
\* whitespace followed by the page break, with nothing put in front.
C3_NoHeadings ==
  (LoopDone /\ NumBoundaries(content) = 0) =>
     /\ DOMAIN chapters = { IntroName }
     /\ chapters[IntroName] = Strip(content) \o PageBreak

\* a document of heading-like lines none of which is a boundary, with
\* whitespace to strip
C3_Witness ==
  /\ LoopDone
  /\ NumBoundaries(content) = 0
  /\ "#" \in Range(content)
  /\ Strip(content) # content
  /\ DOMAIN chapters = { IntroName }

\* the text of a chapter file without its page-break suffix
WithoutPageBreak(text) ==
  IF EndsWith(text, PageBreak)
    THEN SubSeq(text, 1, Len(text) - Len(PageBreak))
    ELSE text

IsInk(c) == c \notin Whitespace
NonWhitespace(text) == SelectSeq(text, IsInk)

\* the chapter files in ordinal order, page breaks removed, concatenated
FileOfOrdinal(n) == CHOOSE fn \in DOMAIN chapters : OrdinalOf(fn) = n
Reassembled ==
  LET n == Cardinality(DOMAIN chapters)
      F[j \in 0..n] ==
        IF j = 0 THEN << >>
        ELSE F[j - 1] \o WithoutPageBreak(chapters[FileOfOrdinal(j)])
  IN  F[n]

\* (C6) The chapter files, taken in ordinal order without their page-break
\* suffix and concatenated, hold the non-whitespace characters of the
\* document once each and in order; every file after the first starts with
\* the heading marker that the split removed.
C6_RoundTrip ==
  LoopDone =>
     /\ NonWhitespace(Reassembled) = NonWhitespace(content)
     /\ \A fn \in DOMAIN chapters :
          OrdinalOf(fn) >= 2 => StartsWith(chapters[fn], HeadingMarker)

C6_Witness ==
  /\ LoopDone
  /\ Cardinality(DOMAIN chapters) = 3
  /\ Reassembled # content
  /\ Strip(sections[1]) # << >>
  /\ NonWhitespace(Reassembled) = NonWhitespace(content)

\* the sections split_content has written so far: ordinal j is sections[j],
\* written by the j-th write to the chapters directory
WrittenSections == 2..Len(ChapterWrites)

\* (C2) The filename of the section with ordinal j >= 2 and title t is the
\* zero-padded ordinal, a hyphen, the slug of t and the extension '.md'; an
\* all-stripped title gives NN-.md.  The code strips the dot of the extension.
C2_FilenameForm ==
  \A j \in WrittenSections :
     ChapterWrites[j] = Format02d(j) \o << "-" >> \o Slug(Title(sections[j])) \o MdExt

\* (C4) A section's file holds '## ', the trimmed segment and the page break,
\* and its first line is '## ' followed by the title derived for the section
\* (whitespace around the title is not held against the code).  The code
\* promotes the first body line to the heading when the title line is blank.
C4_SectionContent ==
  \A j \in WrittenSections :
     LET text == chapters[ChapterWrites[j]]
         line == FirstLine(text)
     IN  /\ text = HeadingMarker \o Strip(sections[j]) \o PageBreak
         /\ StartsWith(line, HeadingMarker)
         /\ Strip(SubSeq(line, Len(HeadingMarker) + 1, Len(line))) = Title(sections[j])

\* a filename without its ordinal prefix and without the two letters that
\* are left of the extension
SlugPartOf(name) ==
  LET rest == SubSeq(name, Len(UpToHyphen(name)) + 2, Len(name))
  IN  SubSeq(rest, 1, Len(rest) - 2)

CppRust == << "C","+","+"," ","&"," ","R","u","s","t","!" >>

\* (C7, as stated) the title 'C++ & Rust!' gives the fragment 'c-rust'
C7_Original ==
  \A j \in WrittenSections :
     Title(sections[j]) = CppRust =>
        SlugPartOf(ChapterWrites[j]) = << "c","-","r","u","s","t" >>

\* (C7) The slug in a section's filename is the title lower-cased, every
\* space replaced by a hyphen, every character that is no lowercase letter,
\* digit or hyphen stripped; for 'C++ & Rust!' it is 'c--rust', one hyphen
\* for each of the two spaces.
C7_Slug ==
  \A j \in WrittenSections :
     /\ SlugPartOf(ChapterWrites[j]) = Slug(Title(sections[j]))
     /\ Title(sections[j]) = CppRust =>
          SlugPartOf(ChapterWrites[j]) = << "c","-","-","r","u","s","t" >>

C7_Witness ==
  \E j \in WrittenSections :
     /\ Title(sections[j]) = CppRust
     /\ SlugPartOf(ChapterWrites[j]) = << "c","-","-","r","u","s","t" >>

\* (C5) After a successful run the Output Tree is metadata.yaml, build.sh
\* and the chapter files of the document read, whatever rust-book held
\* before; so a second run on the same document leaves the same tree.
C5_TreeOfSourceOnly ==
  pc = "done" => Tree = TreeOfRun(srcText)

\* a run over the tree of an earlier run on another document, which held a
\* chapter file and a built PDF that this run does not produce
C5_Witness ==
  /\ pc = "done"
  /\ tree0 = EarlierTree
  /\ \E fn \in DOMAIN tree0.chapters : fn \notin DOMAIN chapters
  /\ "rust-book.pdf" \notin DOMAIN rootFiles
  /\ NumBoundaries(srcText) >= 1

\* (C8, as stated) a successful run prints exactly two lines
C8_Original ==
  pc = "done" => Len(stdout) = 2

\* (C8) A successful run prints exactly three lines, and nothing is printed
\* before metadata.yaml, build.sh and every chapter file have been written.
C8_StatusLines ==
  /\ pc = "done" => Len(stdout) = 3
  /\ stdout # << >> => Tree = TreeOfRun(srcText)

C8_Witness ==
  /\ pc = "done"
  /\ Len(stdout) = 3
  /\ Cardinality(DOMAIN chapters) >= 2

OpsBefore(j, op) == { m \in 1..(j - 1) : log[m].op = op }

C10_MissingSource ==
  (pc = "failed" /\ srcState # "ok") =>
     /\ Tree = tree0
     /\ stdout = << >>
     /\ log = << >>

\* the source has gone after a successful run: its tree stays
C10_Witness ==
  /\ pc = "failed"
  /\ srcState = "missing"
  /\ runs = 2
  /\ tree0 = TreeOfRun(srcText)
  /\ Tree = tree0

====
